---- MODULE Spec2Model ----
(***************************************************************************)
(* A model of function.py: analyze_cv (the model extractor) followed by    *)
(* generate_graphviz_dot (the graph compiler).                             *)
(*                                                                         *)
(* Strings are sequences of tokens, so that concatenation (f"{id}_calc"),  *)
(* strip("#"), split(":"), split("/") and replace() are computed and not   *)
(* assumed.  Python's None is the one-token sequence <<"None">>, which is  *)
(* also what an f-string prints for it; no input string is "None".         *)
(***************************************************************************)
EXTENDS Naturals, Sequences, FiniteSets

\* ------------------------------------------------------------------ bounds
MaxViews   == 2   \* calculationView elements of a chain document
MaxInputs  == 3   \* input elements of the node of a join document
MaxSources == 2   \* DataSource elements of a sources document
MaxColumns == 2   \* attribute / measure elements of a logicalModel
MaxOrder   == 3   \* calculationView elements of an order document

\* ----------------------------------------------------------------- strings
None == <<"None">>
IsNone(x) == x = None
Empty == <<>>                       \* the empty string ""

Last(s) == s[Len(s)]

RECURSIVE LStrip(_, _)
LStrip(s, t) == IF s # <<>> /\ Head(s) = t THEN LStrip(Tail(s), t) ELSE s
RECURSIVE RStrip(_, _)
RStrip(s, t) ==
    IF s # <<>> /\ Last(s) = t THEN RStrip(SubSeq(s, 1, Len(s) - 1), t) ELSE s
\* str.strip("#"): every leading and every trailing "#" is removed
StripHash(s) == RStrip(LStrip(s, "#"), "#")
\* str.strip(): leading and trailing white space is removed
StripSpace(s) == RStrip(LStrip(s, " "), " ")

\* str.replace(old, new) on one token
ReplaceTok(s, old, new) == [k \in 1..Len(s) |-> IF s[k] = old THEN new ELSE s[k]]

\* node_id.replace('_', ' ').title()
TitleTok(t) ==
    CASE t = "_calc"   -> " Calc"
      [] t = "_filter" -> " Filter"
      [] OTHER         -> t
HumanizeId(s) == [k \in 1..Len(s) |-> TitleTok(s[k])]

\* Type.replace('DATA_BASE_TABLE','Table').replace('CALCULATION_VIEW','View')
TypeLabel(t) ==
    ReplaceTok(ReplaceTok(t, "DATA_BASE_TABLE", "Table"), "CALCULATION_VIEW", "View")

\* view_type.replace('View','')
ViewTok(t) ==
    CASE t = "JoinView"       -> "Join"
      [] t = "ProjectionView" -> "Projection"
      [] OTHER                -> t
KindLabel(t) == [k \in 1..Len(t) |-> ViewTok(t[k])]

\* join_type.replace("outer","Outer").replace("inner","Inner").replace("text","Text")
JoinTok(t) ==
    CASE t = "inner"     -> "Inner"
      [] t = "leftOuter" -> "leftOuter"
      [] t = "outer"     -> "Outer"
      [] t = "text"      -> "Text"
      [] OTHER           -> t
JoinTypeLabel(t) == [k \in 1..Len(t) |-> JoinTok(t[k])]

\* ------------------------------------------------------- the XML document
\* An optional child element with text: present or not, and its text (None
\* for an element without text).
NoChild == [present |-> FALSE, text |-> None]
Child(text) == [present |-> TRUE, text |-> text]

\* <columnObject columnObjectName=... schemaName=.../>
NoColumnObject == [present |-> FALSE, name |-> None, schema |-> None]
ColumnObject(n, s) == [present |-> TRUE, name |-> n, schema |-> s]

\* <DataSource id=... type=...> with its columnObject and resourceUri
\* children; the text of resourceUri is the sequence of its "/" separated
\* segments.
DataSourceElem(id, type, co, uri) ==
    [id |-> id, type |-> type, columnObject |-> co, resourceUri |-> uri]

\* <calculatedViewAttribute id=... datatype=...> with its formula child
CalcAttrElem(id, formula) == [id |-> id, datatype |-> <<"INTEGER">>, formula |-> formula]
NoCalcAttrs == [present |-> FALSE, elems |-> <<>>]
CalcAttrs(elems) == [present |-> TRUE, elems |-> elems]

\* <joinAttribute name=.../>, in the Calculation namespace or in none
JoinAttrElem(ns, name) == [ns |-> ns, name |-> name]

\* <calculationView xsi:type=... id=... joinType=...>: xsitype is the
\* sequence of the ":" separated segments of the attribute, inputs the node
\* attribute of each input child.
ViewElem(id, xsitype, inputs, filter, joinType, joinAttrs, calcAttrs) ==
    [id |-> id, xsitype |-> xsitype, inputs |-> inputs, filter |-> filter,
     joinType |-> joinType, joinAttrs |-> joinAttrs, calcAttrs |-> calcAttrs]

\* <attribute id=...> / <measure id=... aggregationType=...> with the
\* defaultDescription of its descriptions child
ColumnElem(id, agg, descr) == [id |-> id, aggregationType |-> agg, descriptions |-> descr]
NoList == [present |-> FALSE, elems |-> <<>>]
List(elems) == [present |-> TRUE, elems |-> elems]
NoLogicalModel == [present |-> FALSE, attributes |-> NoList, baseMeasures |-> NoList]
LogicalModel(attrs, measures) ==
    [present |-> TRUE, attributes |-> attrs, baseMeasures |-> measures]

Document(wf, rootId, metadata, sources, views, logical) ==
    [wf |-> wf, rootId |-> rootId, metadata |-> metadata, dataSources |-> sources,
     calculationViews |-> views, logicalModel |-> logical]


\* ------------------------------------------------- the input documents
SeqsUpTo(S, n) == UNION {[1..k -> S] : k \in 0..n}
Hash(id) == <<"#">> \o id

DataBaseTable == <<"DATA_BASE_TABLE">>
CalculationView == <<"CALCULATION_VIEW">>
ProjectionType == <<"Calculation", "ProjectionView">>
JoinType == <<"Calculation", "JoinView">>
FilterText == <<"x", " and ", "y">>
OneCalcAttr == CalcAttrs(<<CalcAttrElem(<<"CA">>, Child(<<"f">>))>>)
TableD1 == DataSourceElem(<<"D1">>, DataBaseTable, ColumnObject(<<"T1">>, <<"S1">>), NoChild)
TableD2 == DataSourceElem(<<"D2">>, DataBaseTable, ColumnObject(<<"T2">>, <<"S1">>), NoChild)

\* Chain documents: projection nodes with or without a filter and calculated
\* attributes, whose identifiers and input references include A_calc and
\* A_calc_filter, under a root named R or A_calc.
ChainViews ==
    { ViewElem(id, ProjectionType, <<ref>>, f, None, <<>>, c) :
        id \in {<<"A">>, <<"A", "_calc">>},
        ref \in {Hash(<<"D1">>), Hash(<<"A", "_calc", "_filter">>)},
        f \in {NoChild, Child(FilterText)},
        c \in {NoCalcAttrs, OneCalcAttr} }
ChainDocs ==
    { Document(TRUE, r, NoChild, List(<<TableD1>>), List(vs), NoLogicalModel) :
        r \in {<<"R">>, <<"A", "_calc">>}, vs \in SeqsUpTo(ChainViews, MaxViews) }

\* Join documents: one node, of join kind or not or without a type, with 0 to
\* MaxInputs inputs (one possibly without its node attribute), with or
\* without joinType, and join attributes in the Calculation namespace or none.
JoinAttrLists ==
    { <<>>,
      <<JoinAttrElem(FALSE, <<"K1">>)>>,
      <<JoinAttrElem(FALSE, <<"K2">>), JoinAttrElem(FALSE, <<"K1">>)>>,
      <<JoinAttrElem(TRUE, <<"K1">>)>>,
      <<JoinAttrElem(TRUE, <<"K2">>), JoinAttrElem(FALSE, <<"K1">>)>> }
JoinViews ==
    { ViewElem(<<"A">>, t, ins, NoChild, jt, ja, NoCalcAttrs) :
        t \in {JoinType, ProjectionType, None},
        ins \in SeqsUpTo({Hash(<<"D1">>), <<"D2", "#">>, None}, MaxInputs),
        jt \in {None, <<"inner">>},
        ja \in JoinAttrLists }
JoinDocs ==
    { Document(TRUE, <<"R">>, NoChild, List(<<TableD1, TableD2>>), List(<<v>>), NoLogicalModel) :
        v \in JoinViews }

\* Sources documents: no dataSources container, or 0 to MaxSources DataSource
\* elements: tables and views with or without their detail child, with equal
\* or different (type, name, schema), an identifier shared with a node, no
\* identifier, no type; and no node or one node that reads D1 and D2.
SourceElems ==
    { DataSourceElem(id, d[1], d[2], d[3]) :
        id \in {<<"D1">>, <<"D2">>},
        d \in { <<DataBaseTable, ColumnObject(<<"T1">>, <<"S1">>), NoChild>>,
                <<DataBaseTable, NoColumnObject, NoChild>>,
                <<CalculationView, NoColumnObject, Child(<<"", "p", "q", "V1">>)>>,
                <<CalculationView, NoColumnObject, Child(None)>>,
                <<None, NoColumnObject, NoChild>> } }
    \cup { DataSourceElem(id, DataBaseTable, ColumnObject(<<"T1">>, <<"S1">>), NoChild) :
             id \in {<<"A">>, None} }
ReaderView ==
    ViewElem(<<"A">>, ProjectionType, <<Hash(<<"D1">>), Hash(<<"D2">>)>>,
             NoChild, None, <<>>, NoCalcAttrs)
SourceDocs ==
    { Document(TRUE, <<"R">>, NoChild, ds, vs, NoLogicalModel) :
        ds \in {NoList} \cup {List(es) : es \in SeqsUpTo(SourceElems, MaxSources)},
        vs \in {NoList, List(<<>>), List(<<ReaderView>>)} }

\* Schema documents: with or without the root id, the metadata child, the
\* logicalModel section and its two containers, each with 0 to MaxColumns
\* elements.
ColumnLists(agg) ==
    {NoList} \cup
    { List([k \in 1..n |-> ColumnElem(<<"COL">>, agg, IF k = 1 THEN NoChild ELSE Child(<<"d">>))]) :
        n \in 0..MaxColumns }
LogicalModels ==
    {NoLogicalModel} \cup
    { LogicalModel(a, m) : a \in ColumnLists(None), m \in ColumnLists(<<"sum">>) }
SchemaDocs ==
    { Document(TRUE, r, md, List(<<TableD1>>), vs, lm) :
        r \in {<<"R">>, None},
        md \in {NoChild, Child(<<"ts">>)},
        vs \in {List(<<>>),
                List(<<ViewElem(<<"A">>, ProjectionType, <<Hash(<<"D1">>)>>, NoChild, None,
                                <<>>, NoCalcAttrs)>>)},
        lm \in LogicalModels }

\* Edge documents: one node, of join kind or not, with 0 to MaxInputs inputs
\* that may repeat a reference, with no filter, a filter, a blank filter or
\* a filter without text, and with no, an empty or a filled
\* calculatedViewAttributes container.
EdgeViews ==
    { ViewElem(<<"A">>, t, ins, f, <<"inner">>, <<JoinAttrElem(FALSE, <<"K1">>)>>, c) :
        t \in {JoinType, ProjectionType},
        ins \in SeqsUpTo({Hash(<<"D1">>), Hash(<<"D2">>)}, MaxInputs),
        f \in {NoChild, Child(FilterText), Child(<<" ">>), Child(None)},
        c \in {NoCalcAttrs, CalcAttrs(<<>>), OneCalcAttr} }
EdgeDocs ==
    { Document(TRUE, <<"R">>, NoChild, List(<<TableD1, TableD2>>), List(<<v>>), NoLogicalModel) :
        v \in EdgeViews }

\* Order documents: 0 to MaxOrder projection nodes named A or B that read D1
\* or nothing, so that two elements may carry the same identifier with the
\* same or with different content, next to each other or not.
OrderViews ==
    { ViewElem(id, ProjectionType, ins, NoChild, None, <<>>, NoCalcAttrs) :
        id \in {<<"A">>, <<"B">>}, ins \in {<<Hash(<<"D1">>)>>, <<>>} }
OrderDocs ==
    { Document(TRUE, <<"R">>, NoChild, List(<<TableD1>>), List(vs), NoLogicalModel) :
        vs \in SeqsUpTo(OrderViews, MaxOrder) }

\* Text that is not well-formed XML has no structure to read.
Malformed == Document(FALSE, None, NoChild, NoList, NoList, NoLogicalModel)

Documents ==
    ChainDocs \cup JoinDocs \cup SourceDocs \cup SchemaDocs \cup EdgeDocs \cup OrderDocs
      \cup {Malformed}


\* ------------------------------------------------------------- the state
VARIABLES
    doc,            \* the document behind xml_content
    pc,             \* the statement the program is at
    idx,            \* the element the current loop is at
    err,            \* the exception raised, or <<>>
    general_info,   \* analyze_cv: the root's attributes
    data_sources,   \* analyze_cv: the list of data source rows
    unique_sources, \* analyze_cv: the deduplicated DataFrame
    calc_views,     \* analyze_cv: the insertion-ordered dict of nodes
    final_output,   \* analyze_cv: the attributes and measures DataFrames
    all_nodes,      \* generate_graphviz_dot: identifiers still to declare
    body,           \* generate_graphviz_dot: the statements of the Digraph
    run,            \* which run of generate_graphviz_dot this is
    first_run       \* the description the first run returned

vars == <<doc, pc, idx, err, general_info, data_sources, unique_sources, calc_views,
          final_output, all_nodes, body, run, first_run>>
model_vars == <<general_info, data_sources, unique_sources, calc_views, final_output>>
graph_vars == <<all_nodes, body, run, first_run>>

\* pd.DataFrame(rows): a frame of no rows has no columns either
DataFrame(rows) == [columns |-> rows # <<>>, rows |-> rows]

Init ==
    /\ doc \in Documents
    /\ pc = "parse"
    /\ idx = 1
    /\ err = <<>>
    /\ general_info = [id |-> None, changedAt |-> None]
    /\ data_sources = <<>>
    /\ unique_sources = DataFrame(<<>>)
    /\ calc_views = <<>>
    /\ final_output = [attributes |-> DataFrame(<<>>), measures |-> DataFrame(<<>>)]
    /\ all_nodes = {}
    /\ body = <<>>
    /\ run = 1
    /\ first_run = [state |-> "none", body |-> <<>>]

\* ------------------------------------------------------------ analyze_cv
\* ET.fromstring: a ParseError becomes a ValueError
Parse ==
    /\ pc = "parse"
    /\ IF doc.wf
         THEN pc' = "general" /\ err' = err
         ELSE pc' = "raised" /\ err' = <<"ValueError">>
    /\ UNCHANGED <<doc, idx, model_vars, graph_vars>>

General ==
    /\ pc = "general"
    /\ general_info' =
         [id |-> doc.rootId,
          changedAt |-> IF doc.metadata.present THEN doc.metadata.text ELSE <<"N/A">>]
    /\ pc' = "sources"
    /\ idx' = 1
    /\ UNCHANGED <<doc, err, data_sources, unique_sources, calc_views, final_output,
                   graph_vars>>

\* "/".join(segments)
RECURSIVE JoinSlash(_)
JoinSlash(segs) ==
    IF segs = <<>> THEN <<>>
    ELSE IF Len(segs) = 1 THEN <<segs[1]>>
    ELSE <<segs[1], "/">> \o JoinSlash(Tail(segs))

\* resource_uri.text.split('/') of an element without text
SourceRaises(e) ==
    e.type = CalculationView /\ e.resourceUri.present /\ IsNone(e.resourceUri.text)

SourceRow(e) ==
    LET co  == e.columnObject
        uri == e.resourceUri.text
        name == IF e.type = DataBaseTable /\ co.present THEN co.name
                ELSE IF e.type = CalculationView /\ e.resourceUri.present
                     THEN <<Last(uri)>>
                ELSE Empty
        schema == IF e.type = DataBaseTable /\ co.present THEN co.schema
                  ELSE IF e.type = CalculationView /\ e.resourceUri.present
                       THEN JoinSlash(SubSeq(uri, 2, Len(uri) - 1))
                  ELSE Empty
    IN  [ID |-> e.id, Name |-> name, Type |-> e.type, Schema |-> schema]

\* one pass of the loop over the DataSource children of dataSources
SourceStep ==
    /\ pc = "sources"
    /\ doc.dataSources.present
    /\ idx <= Len(doc.dataSources.elems)
    /\ LET e == doc.dataSources.elems[idx]
       IN  IF SourceRaises(e)
             THEN /\ pc' = "raised"
                  /\ err' = <<"AttributeError">>
                  /\ UNCHANGED <<idx, data_sources>>
             ELSE /\ data_sources' = Append(data_sources, SourceRow(e))
                  /\ idx' = idx + 1
                  /\ UNCHANGED <<pc, err>>
    /\ UNCHANGED <<doc, general_info, unique_sources, calc_views, final_output, graph_vars>>

Triple(r) == <<r.Type, r.Name, r.Schema>>
RECURSIVE KeepFirst(_, _)
KeepFirst(rows, seen) ==
    IF rows = <<>> THEN <<>>
    ELSE IF Triple(Head(rows)) \in seen THEN KeepFirst(Tail(rows), seen)
    ELSE <<Head(rows)>> \o KeepFirst(Tail(rows), seen \cup {Triple(Head(rows))})
\* df.drop_duplicates(subset=['Type', 'Name', 'Schema']): an empty frame is
\* copied as it is, without looking for the columns
DropDuplicates(df) ==
    IF df.rows = <<>> THEN df ELSE [columns |-> df.columns, rows |-> KeepFirst(df.rows, {})]

Dedup ==
    /\ pc = "sources"
    /\ ~doc.dataSources.present \/ idx > Len(doc.dataSources.elems)
    /\ unique_sources' = DropDuplicates(DataFrame(data_sources))
    /\ pc' = "views"
    /\ idx' = 1
    /\ UNCHANGED <<doc, err, general_info, data_sources, calc_views, final_output,
                   graph_vars>>


\* A Python dict: the keys in insertion order, each with its value; assigning
\* to a key it holds replaces the value and keeps the key's place.
HasKey(d, k) == \E j \in 1..Len(d) : d[j].key = k
DictPut(d, k, v) ==
    IF HasKey(d, k)
      THEN [j \in 1..Len(d) |-> IF d[j].key = k THEN [key |-> k, val |-> v] ELSE d[j]]
      ELSE Append(d, [key |-> k, val |-> v])
DictGet(d, k) == d[CHOOSE j \in 1..Len(d) : d[j].key = k].val
Keys(d) == [j \in 1..Len(d) |-> d[j].key]

AttrNames(attrs) == [k \in 1..Len(attrs) |-> attrs[k].name]
\* view.findall("Calculation:joinAttribute", ns)
NamespacedJoinAttrs(e) == SelectSeq(e.joinAttrs, LAMBDA a : a.ns)
\* view.findall("joinAttribute")
PlainJoinAttrs(e) == SelectSeq(e.joinAttrs, LAMBDA a : ~a.ns)

\* .split(':')[-1] of an absent xsi:type, .strip("#") of an absent node
ViewRaises(e) == IsNone(e.xsitype) \/ \E k \in 1..Len(e.inputs) : IsNone(e.inputs[k])

FilterExpression(e) ==
    IF e.filter.present /\ ~IsNone(e.filter.text) /\ e.filter.text # Empty
       /\ StripSpace(e.filter.text) # Empty
      THEN e.filter.text
      ELSE None

\* a mutant of JoinDetails: a join node of two or more inputs gets a JoinDetail
JoinDetailsTwoOrMore(e, view_type) ==
    IF view_type = <<"JoinView">> /\ Len(e.inputs) >= 2
      THEN << [join_type |-> e.joinType,
               left_table |-> StripHash(e.inputs[1]),
               right_table |-> StripHash(e.inputs[2]),
               joinAttribute |-> IF PlainJoinAttrs(e) # <<>>
                                   THEN PlainJoinAttrs(e)[1].name ELSE Empty,
               join_columns |-> AttrNames(PlainJoinAttrs(e))] >>
      ELSE <<>>

JoinDetails(e, view_type) ==
    IF view_type = <<"JoinView">> /\ Len(e.inputs) = 2
      THEN << [join_type |-> e.joinType,
               left_table |-> StripHash(e.inputs[1]),
               right_table |-> StripHash(e.inputs[2]),
               joinAttribute |-> IF PlainJoinAttrs(e) # <<>>
                                   THEN PlainJoinAttrs(e)[1].name ELSE Empty,
               join_columns |-> AttrNames(PlainJoinAttrs(e))] >>
      ELSE <<>>

CalculatedAttributes(e) ==
    IF e.calcAttrs.present
      THEN [k \in 1..Len(e.calcAttrs.elems) |->
              LET a == e.calcAttrs.elems[k]
              IN  [id |-> a.id, datatype |-> a.datatype,
                   formula |-> IF a.formula.present THEN a.formula.text ELSE <<"N/A">>]]
      ELSE <<>>

ViewDetails(e) ==
    LET view_type == <<Last(e.xsitype)>>
    IN  [type |-> view_type,
         inputs |-> [k \in 1..Len(e.inputs) |-> StripHash(e.inputs[k])],
         filters |-> FilterExpression(e),
         join_attributes |-> AttrNames(NamespacedJoinAttrs(e)),
         join_details |-> JoinDetails(e, view_type),
         calculated_attributes |-> CalculatedAttributes(e)]

\* one pass of the loop over the calculationView children of calculationViews
ViewStep ==
    /\ pc = "views"
    /\ doc.calculationViews.present
    /\ idx <= Len(doc.calculationViews.elems)
    /\ LET e == doc.calculationViews.elems[idx]
       IN  IF ViewRaises(e)
             THEN /\ pc' = "raised"
                  /\ err' = <<"AttributeError">>
                  /\ UNCHANGED <<idx, calc_views>>
             ELSE /\ calc_views' = DictPut(calc_views, e.id, ViewDetails(e))
                  /\ idx' = idx + 1
                  /\ UNCHANGED <<pc, err>>
    /\ UNCHANGED <<doc, general_info, data_sources, unique_sources, final_output,
                   graph_vars>>

Description(c) ==
    IF c.descriptions.present /\ ~IsNone(c.descriptions.text) THEN c.descriptions.text
    ELSE Empty
FinalAttributes(lm) ==
    IF lm.present /\ lm.attributes.present
      THEN [k \in 1..Len(lm.attributes.elems) |->
              LET a == lm.attributes.elems[k]
              IN  [TechnicalID |-> a.id, Description |-> Description(a)]]
      ELSE <<>>
FinalMeasures(lm) ==
    IF lm.present /\ lm.baseMeasures.present
      THEN [k \in 1..Len(lm.baseMeasures.elems) |->
              LET m == lm.baseMeasures.elems[k]
              IN  [TechnicalID |-> m.id, AggregationType |-> m.aggregationType,
                   Description |-> Description(m)]]
      ELSE <<>>

\* the logical model, and the return of the collected model
FinalSchema ==
    /\ pc = "views"
    /\ ~doc.calculationViews.present \/ idx > Len(doc.calculationViews.elems)
    /\ final_output' = [attributes |-> DataFrame(FinalAttributes(doc.logicalModel)),
                        measures |-> DataFrame(FinalMeasures(doc.logicalModel))]
    /\ pc' = "analyzed"
    /\ idx' = 1
    /\ UNCHANGED <<doc, err, general_info, data_sources, unique_sources, calc_views,
                   graph_vars>>


\* ------------------------------------------------- generate_graphviz_dot
\* A statement of the Digraph's body. g.node(name, label=...) declares a
\* vertex, g.edge(tail, head, label=...) an edge. role and view say which
\* statement of the function wrote it, and for which node of the model.
NodeStmt(name, label, role, view) ==
    [t |-> "node", a |-> name, b |-> Empty, label |-> label, role |-> role, view |-> view]
EdgeStmt(tail, head, label, role, view) ==
    [t |-> "edge", a |-> tail, b |-> head, label |-> label, role |-> role, view |-> view]

\* set(calculation_views.keys()) and the ID of every row of data_sources
CollectNodes ==
    {calc_views[j].key : j \in 1..Len(calc_views)}
      \cup {unique_sources.rows[j].ID : j \in 1..Len(unique_sources.rows)}

Collect ==
    /\ pc = "analyzed"
    /\ all_nodes' = CollectNodes
    /\ body' = <<>>
    /\ pc' = "declare"
    /\ UNCHANGED <<doc, idx, err, model_vars, run, first_run>>

\* source_df[source_df['ID'] == node_id]: None equals no entry of the column
SourceRowsOf(node_id) ==
    SelectSeq(unique_sources.rows, LAMBDA r : ~IsNone(node_id) /\ r.ID = node_id)

\* the exception the first pass raises at node_id, or <<>>
DeclareRaises(node_id) ==
    IF ~unique_sources.columns THEN <<"KeyError">>
    ELSE IF SourceRowsOf(node_id) # <<>>
      THEN IF IsNone(SourceRowsOf(node_id)[1].Type) THEN <<"AttributeError">> ELSE <<>>
    ELSE IF IsNone(node_id) THEN <<"AttributeError">>
    ELSE <<>>

SourceLabel(row) == <<"source", row.Name, TypeLabel(row.Type)>>
ViewLabel(node_id, view_type) == <<"view", HumanizeId(node_id), KindLabel(view_type)>>
PlainLabel(node_id) == <<"plain", HumanizeId(node_id)>>

NodeDeclaration(node_id) ==
    IF SourceRowsOf(node_id) # <<>>
      THEN NodeStmt(node_id, SourceLabel(SourceRowsOf(node_id)[1]), "source", Empty)
    ELSE IF HasKey(calc_views, node_id)
      THEN NodeStmt(node_id, ViewLabel(node_id, DictGet(calc_views, node_id).type),
                    "view", node_id)
    ELSE NodeStmt(node_id, PlainLabel(node_id), "plain", Empty)

\* a mutant of DeclareNode: an identifier that raises ends the first pass,
\* and the function goes on with the vertices declared so far
DeclareNodeBreak ==
    /\ pc = "declare"
    /\ \E node_id \in all_nodes :
         IF DeclareRaises(node_id) # <<>>
           THEN /\ all_nodes' = {}
                /\ UNCHANGED <<pc, err, body>>
           ELSE /\ body' = Append(body, NodeDeclaration(node_id))
                /\ all_nodes' = all_nodes \ {node_id}
                /\ UNCHANGED <<pc, err>>
    /\ UNCHANGED <<doc, idx, model_vars, run, first_run>>

\* one pass of the loop over the set all_nodes, in whatever order the set
\* yields its elements; all_nodes holds the identifiers not yet visited
DeclareNode ==
    /\ pc = "declare"
    /\ \E node_id \in all_nodes :
         IF DeclareRaises(node_id) # <<>>
           THEN /\ pc' = "gen_raised"
                /\ err' = DeclareRaises(node_id)
                /\ UNCHANGED <<all_nodes, body>>
           ELSE /\ body' = Append(body, NodeDeclaration(node_id))
                /\ all_nodes' = all_nodes \ {node_id}
                /\ UNCHANGED <<pc, err>>
    /\ UNCHANGED <<doc, idx, model_vars, run, first_run>>

\* a mutant of OutputLabel: the measures are not counted
OutputLabelAttributesOnly == <<"output", Len(final_output.attributes.rows)>>

OutputLabel ==
    <<"output", Len(final_output.attributes.rows) + Len(final_output.measures.rows)>>

\* the vertex of the final output; quoting the name None is a TypeError
OutputNode ==
    /\ pc = "declare"
    /\ all_nodes = {}
    /\ IF IsNone(general_info.id)
         THEN /\ pc' = "gen_raised"
              /\ err' = <<"TypeError">>
              /\ UNCHANGED body
         ELSE /\ body' = Append(body, NodeStmt(general_info.id, OutputLabel, "output", Empty))
              /\ pc' = "edges"
              /\ err' = err
    /\ idx' = 1
    /\ UNCHANGED <<doc, model_vars, all_nodes, run, first_run>>

CalcNodeId(view_id) == view_id \o <<"_calc">>
FilterNodeId(view_id) == view_id \o <<"_filter">>
HasFilter(details) == ~IsNone(details.filters) /\ details.filters # Empty
HasCalcAttrs(details) == details.calculated_attributes # <<>>

CalcLabel(details) ==
    <<"calc", [k \in 1..Len(details.calculated_attributes) |->
                 <<details.calculated_attributes[k].id,
                   details.calculated_attributes[k].formula>>]>>
FilterLabel(details) == <<"filter", ReplaceTok(details.filters, " and ", "\n")>>

\* the calculated-attributes vertex and its edge to the node
CalcChain(view_id, details) ==
    IF HasCalcAttrs(details)
      THEN << NodeStmt(CalcNodeId(view_id), CalcLabel(details), "calc", view_id),
              EdgeStmt(CalcNodeId(view_id), view_id, None, "calc_edge", view_id) >>
      ELSE <<>>

\* the filter vertex and its edge to the calc vertex or to the node
FilterChain(view_id, details) ==
    IF HasFilter(details)
      THEN << NodeStmt(FilterNodeId(view_id), FilterLabel(details), "filter", view_id),
              EdgeStmt(FilterNodeId(view_id),
                       IF HasCalcAttrs(details) THEN CalcNodeId(view_id) ELSE view_id,
                       None, "filter_edge", view_id) >>
      ELSE <<>>

\* a mutant of JoinLabel: the two sides of each condition change places
JoinLabelSwapped(details) ==
    IF details.join_details = <<>> THEN Empty
    ELSE LET jd == details.join_details[1]
         IN  <<"Type", JoinTypeLabel(jd.join_type),
               [k \in 1..Len(jd.join_columns) |->
                  <<jd.right_table, jd.join_columns[k], jd.left_table, jd.join_columns[k]>>]>>

\* join_label: "" without join details, else "Type: <kind>" and the
\* conditions joined by " AND "
JoinLabel(details) ==
    IF details.join_details = <<>> THEN Empty
    ELSE LET jd == details.join_details[1]
         IN  <<"Type", JoinTypeLabel(jd.join_type),
               [k \in 1..Len(jd.join_columns) |->
                  <<jd.left_table, jd.join_columns[k], jd.right_table, jd.join_columns[k]>>]>>

\* a mutant of EdgeTarget: the calculated attributes are tested first
EdgeTargetCalcFirst(view_id, details) ==
    IF HasCalcAttrs(details) THEN CalcNodeId(view_id)
    ELSE IF HasFilter(details) THEN FilterNodeId(view_id)
    ELSE view_id

EdgeTarget(view_id, details) ==
    IF HasFilter(details) THEN FilterNodeId(view_id)
    ELSE IF HasCalcAttrs(details) THEN CalcNodeId(view_id)
    ELSE view_id

InputEdges(view_id, details) ==
    [k \in 1..Len(details.inputs) |->
       EdgeStmt(StripHash(details.inputs[k]), EdgeTarget(view_id, details),
                JoinLabel(details), "input", view_id)]

\* join_detail["join_type"].replace of a node without joinType
ChainRaises(view_id, details) ==
    \/ IsNone(view_id)
    \/ details.inputs # <<>> /\ details.join_details # <<>>
         /\ IsNone(details.join_details[1].join_type)

\* one pass of the second loop, over the items of calculation_views
ChainStep ==
    /\ pc = "edges"
    /\ idx <= Len(calc_views)
    /\ LET view_id == calc_views[idx].key
           details == calc_views[idx].val
       IN  IF ChainRaises(view_id, details)
             THEN /\ pc' = "gen_raised"
                  /\ err' = IF IsNone(view_id) THEN <<"TypeError">> ELSE <<"AttributeError">>
                  /\ UNCHANGED <<idx, body>>
             ELSE /\ body' = body \o CalcChain(view_id, details)
                                  \o FilterChain(view_id, details)
                                  \o InputEdges(view_id, details)
                  /\ idx' = idx + 1
                  /\ UNCHANGED <<pc, err>>
    /\ UNCHANGED <<doc, model_vars, all_nodes, run, first_run>>

\* the source of the edge to the output vertex
LastSource(last_view_id, details) ==
    IF HasCalcAttrs(details) THEN CalcNodeId(last_view_id)
    ELSE IF HasFilter(details) THEN FilterNodeId(last_view_id)
    ELSE last_view_id

OutputEdgeStmts ==
    IF calc_views # <<>>
      THEN LET last_view_id == Last(Keys(calc_views))
           IN  << EdgeStmt(LastSource(last_view_id, DictGet(calc_views, last_view_id)),
                           general_info.id, None, "output_edge", last_view_id) >>
      ELSE <<>>

\* the edge from the last node to the output vertex, and the return
OutputEdge ==
    /\ pc = "edges"
    /\ idx > Len(calc_views)
    /\ body' = body \o OutputEdgeStmts
    /\ pc' = "done"
    /\ UNCHANGED <<doc, idx, err, model_vars, all_nodes, run, first_run>>

\* the program called again on the same model
Rerun ==
    /\ pc \in {"done", "gen_raised"}
    /\ run = 1
    /\ first_run' = [state |-> pc, body |-> IF pc = "done" THEN body ELSE <<>>]
    /\ run' = 2
    /\ pc' = "analyzed"
    /\ err' = <<>>
    /\ body' = <<>>
    /\ all_nodes' = {}
    /\ UNCHANGED <<doc, idx, model_vars>>

Next ==
    \/ Parse \/ General \/ SourceStep \/ Dedup \/ ViewStep \/ FinalSchema
    \/ Collect \/ DeclareNode \/ OutputNode \/ ChainStep \/ OutputEdge

Spec == Init /\ [][Next]_vars

NextTwoRuns == Next \/ Rerun
SpecTwoRuns == Init /\ [][NextTwoRuns]_vars


\* ---------------------------------------------- reading the description
IsNode(k) == body[k].t = "node"
IsEdge(k) == body[k].t = "edge"
Positions == 1..Len(body)
HasEdge(tail, head) == \E k \in Positions : IsEdge(k) /\ body[k].a = tail /\ body[k].b = head
Declared(name) == \E k \in Positions : IsNode(k) /\ body[k].a = name
\* the input edges written for the inputs of the node view_id
InputEdgesOf(view_id) ==
    {k \in Positions : IsEdge(k) /\ body[k].role = "input" /\ body[k].view = view_id}
Returned == pc = "done"
ModelReturned == pc \in {"analyzed", "declare", "edges", "done", "gen_raised"}

\* ----------------------------------------------------------------- claims

\* C1: for every node V with a filter and calculated attributes the returned
\* description holds an edge V_filter -> V_calc and an edge V_calc -> V, no
\* edge V_filter -> V, and every input edge of V targets V_filter.
C1_FilterCalcChain ==
    Returned =>
      \A j \in 1..Len(calc_views) :
        LET V == calc_views[j].key
            d == calc_views[j].val
        IN  (~IsNone(d.filters) /\ d.calculated_attributes # <<>>) =>
              /\ HasEdge(V \o <<"_filter">>, V \o <<"_calc">>)
              /\ HasEdge(V \o <<"_calc">>, V)
              /\ ~HasEdge(V \o <<"_filter">>, V)
              /\ \A k \in InputEdgesOf(V) : body[k].b = V \o <<"_filter">>

\* The destination the claims give to the inputs of a node: its filter vertex
\* if it has a filter, else its calc vertex if it has calculated attributes,
\* else the node.
ClaimedDestination(V, d) ==
    IF ~IsNone(d.filters) THEN V \o <<"_filter">>
    ELSE IF d.calculated_attributes # <<>> THEN V \o <<"_calc">>
    ELSE V
EdgesIntoOutput == {k \in Positions : IsEdge(k) /\ body[k].b = general_info.id}

\* C2: with at least one node, the returned description holds exactly one
\* edge into the output vertex, and its source is the vertex the input edges
\* of the last node of the mapping target; with no node, it holds none.
C2_OutputEdge ==
    Returned =>
      IF calc_views # <<>>
        THEN /\ Cardinality(EdgesIntoOutput) = 1
             /\ \A k \in EdgesIntoOutput :
                  body[k].a = ClaimedDestination(calc_views[Len(calc_views)].key,
                                                 calc_views[Len(calc_views)].val)
        ELSE EdgesIntoOutput = {}

\* C3: every input edge of a join node with a JoinDetail carries the same
\* label: the join kind, then one condition <left>.<name> = <right>.<name>
\* per join-attribute name of the JoinDetail, in order, where left and right
\* are the first and the second input of the node.
C3_JoinEdgeLabels ==
    \A j \in 1..Len(calc_views) :
      LET V == calc_views[j].key
          d == calc_views[j].val
      IN  d.join_details # <<>> =>
            \A k \in InputEdgesOf(V) :
              /\ body[k].label[1] = "Type"
              /\ body[k].label[2] = JoinTypeLabel(d.join_details[1].join_type)
              /\ Len(body[k].label[3]) = Len(d.join_details[1].join_columns)
              /\ \A c \in 1..Len(d.join_details[1].join_columns) :
                   body[k].label[3][c] =
                     <<d.inputs[1], d.join_details[1].join_columns[c],
                       d.inputs[2], d.join_details[1].join_columns[c]>>
\* a returned description with the two labelled input edges of a join node
\* that has two join-attribute names
C3_Witness ==
    /\ Returned
    /\ \E j \in 1..Len(calc_views) :
         /\ calc_views[j].val.join_details # <<>>
         /\ Len(calc_views[j].val.join_details[1].join_columns) = 2
         /\ calc_views[j].val.inputs[1] # calc_views[j].val.inputs[2]
         /\ Cardinality(InputEdgesOf(calc_views[j].key)) = 2

\* C4: a node of the mapping has a JoinDetail if and only if its kind is
\* JoinView and it has exactly two inputs, and never more than one.
C4_JoinDetailIff ==
    \A j \in 1..Len(calc_views) :
      LET d == calc_views[j].val
      IN  /\ (d.join_details # <<>>) <=> (d.type = <<"JoinView">> /\ Len(d.inputs) = 2)
          /\ Len(d.join_details) <= 1
\* a returned model with a join node of two inputs, which has its JoinDetail
C4_Witness ==
    /\ ModelReturned
    /\ \E j \in 1..Len(calc_views) :
         /\ calc_views[j].val.type = <<"JoinView">>
         /\ Len(calc_views[j].val.inputs) = 2
         /\ Len(calc_views[j].val.join_details) = 1
\* a returned model with a join node of three inputs, which has none
C4_WitnessThree ==
    /\ ModelReturned
    /\ \E j \in 1..Len(calc_views) :
         /\ calc_views[j].val.type = <<"JoinView">>
         /\ Len(calc_views[j].val.inputs) = 3
         /\ calc_views[j].val.join_details = <<>>


\* C5: when two DataSource elements with different identifiers have the same
\* (type, name, schema), the deduplicated table has exactly one row for the
\* triple, the first occurrence, and the returned description declares a
\* data-source vertex with that row's name and kind for both identifiers.
C5_DedupResolvable ==
    Returned =>
      \A i \in 1..Len(data_sources) : \A j \in 1..Len(data_sources) :
        (i < j /\ data_sources[i].ID # data_sources[j].ID
           /\ Triple(data_sources[i]) = Triple(data_sources[j])
           /\ \A h \in 1..(i - 1) : Triple(data_sources[h]) # Triple(data_sources[i])) =>
          /\ Cardinality({k \in 1..Len(unique_sources.rows) :
                            Triple(unique_sources.rows[k]) = Triple(data_sources[i])}) = 1
          /\ \E k \in 1..Len(unique_sources.rows) : unique_sources.rows[k] = data_sources[i]
          /\ \A id \in {data_sources[i].ID, data_sources[j].ID} :
               \E k \in Positions :
                 /\ IsNode(k)
                 /\ body[k].a = id
                 /\ body[k].label =
                      <<"source", data_sources[i].Name, TypeLabel(data_sources[i].Type)>>

\* C6: analyze_cv raises if and only if the text is not well-formed XML: it
\* returns a model for every well-formed document, whatever optional
\* structure is missing.
C6_RaisesIffMalformed ==
    /\ pc = "raised" => ~doc.wf
    /\ ModelReturned => doc.wf

\* C7: generate_graphviz_dot never raises on a model analyze_cv returned,
\* and the description it returns declares the output vertex.
C7_NeverRaises ==
    /\ pc # "gen_raised"
    /\ Returned => \E k \in Positions : IsNode(k) /\ body[k].role = "output"

\* the attribute and measure elements of the document's logicalModel
DocColumns ==
    (IF doc.logicalModel.present /\ doc.logicalModel.attributes.present
       THEN Len(doc.logicalModel.attributes.elems) ELSE 0)
    + (IF doc.logicalModel.present /\ doc.logicalModel.baseMeasures.present
         THEN Len(doc.logicalModel.baseMeasures.elems) ELSE 0)
OutputDeclarations == {k \in Positions : IsNode(k) /\ body[k].label[1] = "output"}

\* C8: the model of a document without logicalModel has no dimension and no
\* measure; the description declares one output vertex, named by the root
\* id, whose label states the number of dimensions plus measures of the
\* document, which is 0 without logicalModel.
C8_OutputVertex ==
    /\ (ModelReturned /\ ~doc.logicalModel.present) =>
         /\ final_output.attributes.rows = <<>>
         /\ final_output.measures.rows = <<>>
    /\ Cardinality(OutputDeclarations) <= 1
    /\ pc \in {"edges", "done"} =>
         /\ Cardinality(OutputDeclarations) = 1
         /\ \A k \in OutputDeclarations :
              /\ body[k].a = doc.rootId
              /\ body[k].label = <<"output", DocColumns>>
              /\ ~doc.logicalModel.present => body[k].label[2] = 0
\* a returned description of a document without logicalModel
C8_Witness ==
    /\ Returned
    /\ ~doc.logicalModel.present
    /\ calc_views # <<>>
    /\ \E k \in Positions : IsNode(k) /\ body[k].label = <<"output", 0>>
\* a returned description of a document with dimensions and measures
C8_WitnessColumns ==
    /\ Returned
    /\ Len(final_output.attributes.rows) = 1
    /\ Len(final_output.measures.rows) = 2
    /\ \E k \in Positions : IsNode(k) /\ body[k].label = <<"output", 3>>

\* C9: the returned description declares a labelled vertex for every
\* DataSource identifier of the table, for every node identifier, and for
\* every input reference that is neither, labelled from the reference, so
\* that the source of every input edge is declared.
C9_EndpointsDeclared ==
    Returned =>
      /\ \A j \in 1..Len(unique_sources.rows) : Declared(unique_sources.rows[j].ID)
      /\ \A j \in 1..Len(calc_views) : Declared(calc_views[j].key)
      /\ \A j \in 1..Len(calc_views) : \A n \in 1..Len(calc_views[j].val.inputs) :
           LET ref == calc_views[j].val.inputs[n]
           IN  /\ Declared(ref)
               /\ (~HasKey(calc_views, ref)
                   /\ \A h \in 1..Len(unique_sources.rows) : unique_sources.rows[h].ID # ref) =>
                     \E k \in Positions :
                       IsNode(k) /\ body[k].a = ref /\ body[k].label = <<"plain", HumanizeId(ref)>>
      /\ \A k \in Positions : (IsEdge(k) /\ body[k].role = "input") => Declared(body[k].a)

\* what a description says: its vertices, its edges, the label of a vertex
\* (that of its last declaration)
Max(S) == CHOOSE x \in S : \A y \in S : y <= x
VerticesOf(b) ==
    {b[k].a : k \in 1..Len(b)} \cup {b[k].b : k \in {h \in 1..Len(b) : b[h].t = "edge"}}
EdgesOf(b) == {<<b[k].a, b[k].b, b[k].label>> : k \in {h \in 1..Len(b) : b[h].t = "edge"}}
LabelIn(b, v) ==
    LET K == {k \in 1..Len(b) : b[k].t = "node" /\ b[k].a = v}
    IN  IF K = {} THEN <<>> ELSE b[Max(K)].label

\* C10: a second run of generate_graphviz_dot on the same model ends as the
\* first did, and returns a description with the same vertices, the same
\* edges and the same labels, whatever order the first pass took in each.
C10_Deterministic ==
    (run = 2 /\ pc \in {"done", "gen_raised"}) =>
      /\ first_run.state = pc
      /\ pc = "done" =>
           /\ VerticesOf(first_run.body) = VerticesOf(body)
           /\ EdgesOf(first_run.body) = EdgesOf(body)
           /\ \A v \in VerticesOf(body) : LabelIn(first_run.body, v) = LabelIn(body, v)
\* two returned runs that declared the vertices in different orders, on a
\* model where a DataSource and a node share an identifier
C10_Witness ==
    /\ run = 2
    /\ pc = "done"
    /\ first_run.state = "done"
    /\ first_run.body # body
    /\ \E j \in 1..Len(unique_sources.rows) : HasKey(calc_views, unique_sources.rows[j].ID)

\* how many elements of the sequence s equal x
Occurrences(s, x) == Cardinality({n \in 1..Len(s) : s[n] = x})

\* C11: the filter of a node of the mapping is None or not blank; and in the
\* returned description every node V has, for every element of its inputs
\* (a reference given twice counted twice), one input edge from the reference
\* to V_filter if V has a filter, else to V_calc if V has calculated
\* attributes, else to V, and no other input edge; a filter vertex V_filter
\* is declared only if V has a filter and a calc vertex V_calc only if V has
\* calculated attributes; and the input edges of a node that is not a join
\* or has no JoinDetail carry the empty label.
C11_InputEdges ==
    /\ \A j \in 1..Len(calc_views) :
         \/ IsNone(calc_views[j].val.filters)
         \/ StripSpace(calc_views[j].val.filters) # Empty
    /\ Returned =>
         \A j \in 1..Len(calc_views) :
           LET V == calc_views[j].key
               d == calc_views[j].val
           IN  /\ \A k \in InputEdgesOf(V) :
                    /\ body[k].b = ClaimedDestination(V, d)
                    /\ \E n \in 1..Len(d.inputs) : body[k].a = d.inputs[n]
               /\ \A n \in 1..Len(d.inputs) :
                    Cardinality({k \in InputEdgesOf(V) : body[k].a = d.inputs[n]})
                      = Occurrences(d.inputs, d.inputs[n])
               /\ \A k \in Positions :
                    (IsNode(k) /\ body[k].label[1] = "filter"
                       /\ body[k].a = V \o <<"_filter">>) => ~IsNone(d.filters)
               /\ \A k \in Positions :
                    (IsNode(k) /\ body[k].label[1] = "calc"
                       /\ body[k].a = V \o <<"_calc">>) => d.calculated_attributes # <<>>
               /\ (d.type # <<"JoinView">> \/ d.join_details = <<>>) =>
                    \A k \in InputEdgesOf(V) : body[k].label = Empty
\* a returned description of a node that names one reference twice and
\* another once, has a blank filter in the document and calculated
\* attributes: three input edges, to the calc vertex
C11_Witness ==
    /\ Returned
    /\ \E e \in {doc.calculationViews.elems[n] : n \in 1..Len(doc.calculationViews.elems)} :
         /\ e.filter.present
         /\ e.filter.text = <<" ">>
    /\ \E j \in 1..Len(calc_views) :
         LET V == calc_views[j].key
             d == calc_views[j].val
         IN  /\ Len(d.inputs) = 3
             /\ d.inputs[1] = d.inputs[2]
             /\ d.inputs[1] # d.inputs[3]
             /\ d.calculated_attributes # <<>>
             /\ Cardinality({k \in InputEdgesOf(V) : body[k].b = V \o <<"_calc">>}) = 3

\* C12: the mapping analyze_cv returns has one entry per calculationView
\* element of the document, in document order, each with the identifier and
\* the details of its element, so that its last key is the identifier of the
\* last element; also when two elements carry the same identifier.
C12_MappingOrder ==
    ModelReturned =>
      LET elems == doc.calculationViews.elems
      IN  /\ Len(calc_views) = Len(elems)
          /\ \A j \in 1..Len(calc_views) :
               j <= Len(elems) =>
                 /\ calc_views[j].key = elems[j].id
                 /\ calc_views[j].val = ViewDetails(elems[j])
          /\ elems # <<>> => Last(Keys(calc_views)) = Last(elems).id
\* C12, its last sentence alone: the last key of the returned mapping is the
\* identifier of the last calculationView element.
C12_LastKey ==
    (ModelReturned /\ doc.calculationViews.elems # <<>>) =>
      Last(Keys(calc_views)) = Last(doc.calculationViews.elems).id

\* C13: for every node of the returned mapping with a JoinDetail, the
\* join_columns of the JoinDetail equal the join_attributes of the node, and
\* its joinAttribute is the first of them, or "" if there is none.
C13_JoinColumns ==
    ModelReturned =>
      \A j \in 1..Len(calc_views) :
        LET d == calc_views[j].val
        IN  d.join_details # <<>> =>
              /\ d.join_details[1].join_columns = d.join_attributes
              /\ d.join_details[1].joinAttribute =
                   (IF d.join_attributes = <<>> THEN Empty ELSE d.join_attributes[1])

\* the identifiers of the DataSource elements and of the nodes of the model
RealIdentifiers ==
    {data_sources[j].ID : j \in 1..Len(data_sources)}
      \cup {calc_views[j].key : j \in 1..Len(calc_views)}
\* the declarations of the output vertex and of the annotation vertices
SyntheticDeclarations ==
    {k \in Positions : IsNode(k) /\ body[k].role \in {"output", "calc", "filter"}}

\* C14: in the returned description the name of the output vertex and the
\* names of the calc and filter vertices differ from every DataSource
\* identifier and every node identifier, no declaration of such a vertex
\* follows the declaration of a data-source or node vertex of the same name,
\* and no input edge of a node goes into the output vertex.
C14_SyntheticIdsDistinct ==
    Returned =>
      /\ \A k \in SyntheticDeclarations : body[k].a \notin RealIdentifiers
      /\ \A k \in SyntheticDeclarations : \A h \in 1..(k - 1) :
           (IsNode(h) /\ body[h].role \in {"source", "view"}) => body[h].a # body[k].a
      /\ \A k \in Positions :
           (IsEdge(k) /\ body[k].role = "input") => body[k].b # general_info.id

====
